---- MODULE Spec2Model ----
(***************************************************************************)
(* Level-progression map of RENDER3D1.0: the node / path state machine of  *)
(* the two program variants,                                               *)
(*   "free"   = src/1.py              (free-roam movement policy)          *)
(*   "strict" = src/3dworld5.13.25.py (movement along paths only).         *)
(*                                                                         *)
(* Node ids are modelled as positive integers whose numeric order is the   *)
(* lexicographic order of the id strings (the only thing the code does     *)
(* with ids besides comparing them for equality is sorted((a, b))).        *)
(* Scales are in hundredths (0.8 -> 80).                                   *)
(***************************************************************************)
EXTENDS Integers, Sequences, FiniteSets, TLC

VARIABLES
    variant,                 \* which source file runs: "free" or "strict"
    levels_data,             \* the configuration list (static)
    started,                 \* setup_level_nodes_and_paths has run
    node_state,              \* all_level_nodes[id].node_state
    is_current_game_node,    \* all_level_nodes[id].is_current_game_node
    collider,                \* all_level_nodes[id].collider
    node_color,              \* all_level_nodes[id].color
    scale,                   \* target of the last animate_scale request per node
    paths_entities,          \* path key <<a, b>> -> [color, thickness, visible]
    current_player_node_id,  \* the current-node pointer (None before setup)
    pending,                 \* FIFO of delayed settle callbacks <<id, scale>>
    feedback,                \* the last feedback signal: [kind, node]
    warnings,                \* the warnings setup printed: <<node id, target id>>
    y_displaced,             \* per node: update() has moved y off original_y
    rotated,                 \* per node: update() has turned rotation_y
    was_current              \* history: the nodes the pointer has left

vars == <<variant, levels_data, started, node_state, is_current_game_node,
          collider, node_color, scale, paths_entities, current_player_node_id,
          pending, feedback, warnings, y_displaced, rotated, was_current>>

(***************************************************************************)
(* Bounds of the generated configurations.                                 *)
(***************************************************************************)
NumNodes == 3
MaxEdges == 2

(***************************************************************************)
(* Program constants.                                                      *)
(***************************************************************************)
None == 0
BaseScale == 80
LockedScalePct == 70
CurrentScalePct == 125
PopScalePct == 150
StrictPopScale == 120
StrictSettleScale == 80
InitialThickness == 5
HighlightThickness == 8
MediumThickness == 5
MinimalThickness == 3

Variants == {"free", "strict"}

(***************************************************************************)
(* levels_data as shipped in both files.  Ids by lexicographic rank:       *)
(*   "1-1" = 1, "1-2" = 2, "1-3" = 3, "1-A" = 4, "1-Castle" = 5, "2-1" = 6 *)
(* The list order is the order of the source: 1-1, 1-2, 1-A, 1-3, ...      *)
(* bonus is is_bonus_node: the record's color is color.gold (1-A only).    *)
(***************************************************************************)
ShippedLevels ==
    << [id |-> 1, unlocks |-> <<2>>,    initial_state |-> "unlocked", bonus |-> FALSE],
       [id |-> 2, unlocks |-> <<4, 3>>, initial_state |-> "locked",   bonus |-> FALSE],
       [id |-> 4, unlocks |-> <<>>,     initial_state |-> "locked",   bonus |-> TRUE],
       [id |-> 3, unlocks |-> <<5>>,    initial_state |-> "locked",   bonus |-> FALSE],
       [id |-> 5, unlocks |-> <<6>>,    initial_state |-> "locked",   bonus |-> FALSE],
       [id |-> 6, unlocks |-> <<>>,     initial_state |-> "locked",   bonus |-> FALSE] >>

\* The shipped map with its second node open as well: the same graph in a
\* configuration from which the player can move.
ShippedSecondOpen ==
    [ShippedLevels EXCEPT ![2].initial_state = "unlocked"]

\* An id no configuration defines: a dangling reference in an unlocks list.
GhostId == Len(ShippedLevels) + NumNodes + 1

RECURSIVE SetToSeq(_)
SetToSeq(S) ==
    IF S = {} THEN <<>>
    ELSE LET m == CHOOSE x \in S : \A y \in S : x <= y
         IN  <<m>> \o SetToSeq(S \ {m})

\* The generated configurations: k nodes 1..k in list order, at most MaxEdges
\* unlock entries in all (targets: the other nodes and the dangling id), the
\* first j nodes initially unlocked and the others locked.  The unlock entries
\* range over every pair of distinct nodes, so every configuration of k nodes
\* with initial states locked / unlocked and no node unlocking itself is one
\* of these up to a renaming of its ids that keeps the first unlocked record
\* first.  The last record of two or more is a bonus (gold) node.
RECURSIVE BoundedSubsets(_, _)
BoundedSubsets(S, m) ==
    IF m = 0 THEN {{}}
    ELSE LET B == BoundedSubsets(S, m - 1)
         IN  B \cup {T \cup {x} : T \in B, x \in S}

EdgeSets(k) ==
    BoundedSubsets({e \in (1..k) \X ((1..k) \cup {GhostId}) : e[1] # e[2]}, MaxEdges)

GenConfig(k, E, j) ==
    [i \in 1..k |->
        [id |-> i,
         unlocks |-> SetToSeq({t \in (1..k) \cup {GhostId} : <<i, t>> \in E}),
         initial_state |-> IF i <= j THEN "unlocked" ELSE "locked",
         bonus |-> (i = k /\ k >= 2)]]

IsConfig(ld) ==
    \/ ld = ShippedLevels
    \/ ld = ShippedSecondOpen
    \/ \E k \in 0..NumNodes : \E E \in EdgeSets(k) :
          \E j \in 0..k : ld = GenConfig(k, E, j)

(***************************************************************************)
(* Helpers over the configuration and the node table.                      *)
(***************************************************************************)
SeqRange(s) == {s[i] : i \in 1..Len(s)}

ConfigIds(ld) == {ld[i].id : i \in 1..Len(ld)}

\* all_level_nodes: the ids that have a LevelNode
all_level_nodes == DOMAIN node_state

\* LevelNode.unlocks of node n
Unlocks(ld, n) == ld[CHOOSE i \in 1..Len(ld) : ld[i].id = n].unlocks

\* LevelNode.is_bonus_node of node n
IsBonus(ld, n) == ld[CHOOSE i \in 1..Len(ld) : ld[i].id = n].bonus

\* tuple(sorted((a, b)))
PathKey(a, b) == IF a <= b THEN <<a, b>> ELSE <<b, a>>

(***************************************************************************)
(* LevelNode.update_visual_state: the color, the requested scale and the   *)
(* collider of one node, from its state, the is_current argument and (in   *)
(* src/1.py, which only sets the collider when it has to) its old collider.*)
(***************************************************************************)
StateScale(st, is_current) ==
    LET s1 == IF st = "locked" THEN (BaseScale * LockedScalePct) \div 100 ELSE BaseScale
    IN  IF is_current THEN (s1 * CurrentScalePct) \div 100 ELSE s1

StateColor(st, old_color) ==
    CASE st = "locked"    -> "gray"
      [] st = "unlocked"  -> "initial"
      [] st = "completed" -> "darkened"
      [] OTHER            -> old_color

UpdateVisualStateFree(st, is_current, old_collider, old_color) ==
    [color    |-> IF is_current THEN "white" ELSE StateColor(st, old_color),
     scale    |-> StateScale(st, is_current),
     collider |-> CASE st = "locked" ->
                        IF old_collider # "none" THEN "none" ELSE old_collider
                    [] st \in {"unlocked", "completed"} ->
                        IF old_collider = "none" THEN "sphere" ELSE old_collider
                    [] OTHER -> old_collider]

\* mutant: a completed node loses its collider
UpdateVisualStateStrict_CompletedOff(st, is_current, old_collider, old_color) ==
    [color    |-> IF is_current THEN "white" ELSE StateColor(st, old_color),
     scale    |-> StateScale(st, is_current),
     collider |-> CASE st \in {"locked", "completed"} -> "none"
                    [] st = "unlocked" -> "sphere"
                    [] OTHER -> old_collider]

UpdateVisualStateStrict(st, is_current, old_collider, old_color) ==
    [color    |-> IF is_current THEN "white" ELSE StateColor(st, old_color),
     scale    |-> StateScale(st, is_current),
     collider |-> CASE st = "locked" -> "none"
                    [] st \in {"unlocked", "completed"} -> "sphere"
                    [] OTHER -> old_collider]

(***************************************************************************)
(* update_path_visuals, for one path: s1, s2 the endpoint states, c1, c2   *)
(* the endpoints' is_current_game_node flags.                              *)
(***************************************************************************)
\* mutant: only the first endpoint's current flag highlights the path
PathVisualFree_FirstEndpointOnly(s1, s2, c1, c2) ==
    LET is_node1_accessible == s1 \in {"unlocked", "completed"} \/ c1
        is_node2_accessible == s2 \in {"unlocked", "completed"} \/ c2
        path_active == s1 # "locked" /\ s2 # "locked"
    IN  IF path_active
        THEN IF c1
             THEN [color |-> "white", thickness |-> HighlightThickness, visible |-> TRUE]
             ELSE IF s1 = "unlocked" /\ s2 = "unlocked"
             THEN [color |-> "light_gray", thickness |-> MediumThickness, visible |-> TRUE]
             ELSE IF \/ s1 = "completed" /\ s2 = "unlocked"
                     \/ s1 = "unlocked" /\ s2 = "completed"
                     \/ s1 = "completed" /\ s2 = "completed"
             THEN [color |-> "gray", thickness |-> MediumThickness, visible |-> TRUE]
             ELSE [color |-> "dark_gray", thickness |-> MinimalThickness, visible |-> TRUE]
        ELSE [color |-> "black", thickness |-> MinimalThickness,
              visible |-> (is_node1_accessible \/ is_node2_accessible)
                          /\ ~(s1 = "locked" /\ s2 = "locked")]

\* mutant: the dim branch forgets the pair completed / completed
PathVisualFree_NoCompletedPair(s1, s2, c1, c2) ==
    LET is_node1_accessible == s1 \in {"unlocked", "completed"} \/ c1
        is_node2_accessible == s2 \in {"unlocked", "completed"} \/ c2
        path_active == s1 # "locked" /\ s2 # "locked"
    IN  IF path_active
        THEN IF c1 \/ c2
             THEN [color |-> "white", thickness |-> HighlightThickness, visible |-> TRUE]
             ELSE IF s1 = "unlocked" /\ s2 = "unlocked"
             THEN [color |-> "light_gray", thickness |-> MediumThickness, visible |-> TRUE]
             ELSE IF \/ s1 = "completed" /\ s2 = "unlocked"
                     \/ s1 = "unlocked" /\ s2 = "completed"
             THEN [color |-> "gray", thickness |-> MediumThickness, visible |-> TRUE]
             ELSE [color |-> "dark_gray", thickness |-> MinimalThickness, visible |-> TRUE]
        ELSE [color |-> "black", thickness |-> MinimalThickness,
              visible |-> (is_node1_accessible \/ is_node2_accessible)
                          /\ ~(s1 = "locked" /\ s2 = "locked")]

PathVisualFree(s1, s2, c1, c2) ==
    LET is_node1_accessible == s1 \in {"unlocked", "completed"} \/ c1
        is_node2_accessible == s2 \in {"unlocked", "completed"} \/ c2
        path_active == s1 # "locked" /\ s2 # "locked"
    IN  IF path_active
        THEN IF c1 \/ c2
             THEN [color |-> "white", thickness |-> HighlightThickness, visible |-> TRUE]
             ELSE IF s1 = "unlocked" /\ s2 = "unlocked"
             THEN [color |-> "light_gray", thickness |-> MediumThickness, visible |-> TRUE]
             ELSE IF \/ s1 = "completed" /\ s2 = "unlocked"
                     \/ s1 = "unlocked" /\ s2 = "completed"
                     \/ s1 = "completed" /\ s2 = "completed"
             THEN [color |-> "gray", thickness |-> MediumThickness, visible |-> TRUE]
             ELSE [color |-> "dark_gray", thickness |-> MinimalThickness, visible |-> TRUE]
        ELSE [color |-> "black", thickness |-> MinimalThickness,
              visible |-> (is_node1_accessible \/ is_node2_accessible)
                          /\ ~(s1 = "locked" /\ s2 = "locked")]

\* mutant: the inactive branch leaves the path visible
PathVisualStrict_AlwaysVisible(s1, s2, c1, c2) ==
    LET path_active == s1 # "locked" /\ s2 # "locked"
    IN  IF path_active
        THEN IF c1 \/ c2
             THEN [color |-> "white", thickness |-> HighlightThickness, visible |-> TRUE]
             ELSE IF s1 = "unlocked" /\ s2 = "unlocked"
             THEN [color |-> "light_gray", thickness |-> MediumThickness, visible |-> TRUE]
             ELSE [color |-> "gray", thickness |-> MediumThickness, visible |-> TRUE]
        ELSE [color |-> "black", thickness |-> MinimalThickness, visible |-> TRUE]

PathVisualStrict(s1, s2, c1, c2) ==
    LET path_active == s1 # "locked" /\ s2 # "locked"
    IN  IF path_active
        THEN IF c1 \/ c2
             THEN [color |-> "white", thickness |-> HighlightThickness, visible |-> TRUE]
             ELSE IF s1 = "unlocked" /\ s2 = "unlocked"
             THEN [color |-> "light_gray", thickness |-> MediumThickness, visible |-> TRUE]
             ELSE [color |-> "gray", thickness |-> MediumThickness, visible |-> TRUE]
        ELSE [color |-> "black", thickness |-> MinimalThickness,
              visible |-> s1 \in {"unlocked", "completed"}
                          \/ s2 \in {"unlocked", "completed"}]

(***************************************************************************)
(* A world W is the mutable program state as one record:                   *)
(*   st, cur_flag, coll, color, scale : per-node fields                    *)
(*   paths, current, pending          : the globals and the timer queue    *)
(***************************************************************************)
\* update_all_visuals: every node's update_visual_state, then the paths
UpdateAllVisualsFree(W) ==
    LET ids  == DOMAIN W.st
        vis  == [n \in ids |->
                    UpdateVisualStateFree(W.st[n], n = W.current, W.coll[n], W.color[n])]
        flag == [n \in ids |-> (n = W.current)]
    IN  [W EXCEPT !.cur_flag = flag,
                  !.coll     = [n \in ids |-> vis[n].collider],
                  !.color    = [n \in ids |-> vis[n].color],
                  !.scale    = [n \in ids |-> vis[n].scale],
                  !.paths    = [k \in DOMAIN W.paths |->
                                   PathVisualFree(W.st[k[1]], W.st[k[2]],
                                                  flag[k[1]], flag[k[2]])]]

UpdateAllVisualsStrict(W) ==
    LET ids  == DOMAIN W.st
        vis  == [n \in ids |->
                    UpdateVisualStateStrict(W.st[n], n = W.current, W.coll[n], W.color[n])]
        flag == [n \in ids |-> (n = W.current)]
    IN  [W EXCEPT !.cur_flag = flag,
                  !.coll     = [n \in ids |-> vis[n].collider],
                  !.color    = [n \in ids |-> vis[n].color],
                  !.scale    = [n \in ids |-> vis[n].scale],
                  !.paths    = [k \in DOMAIN W.paths |->
                                   PathVisualStrict(W.st[k[1]], W.st[k[2]],
                                                    flag[k[1]], flag[k[2]])]]

(***************************************************************************)
(* setup_level_nodes_and_paths.                                            *)
(***************************************************************************)
\* mutant: the node loop takes the first record whatever its initial_state
FirstUnlocked_FirstRecord(ld) ==
    IF Len(ld) = 0 THEN None ELSE ld[1].id

\* the node loop: current_player_node_id becomes the first record whose
\* initial_state is unlocked (None when there is none)
FirstUnlocked(ld) ==
    LET I == {i \in 1..Len(ld) : ld[i].initial_state = "unlocked"}
    IN  IF I = {} THEN None
        ELSE ld[CHOOSE i \in I : \A j \in I : i <= j].id

\* mutant: the key is the pair as listed, (node, target), not sorted
PathKeys_Directed(ld) ==
    {e \in ConfigIds(ld) \X ConfigIds(ld) : e[2] \in SeqRange(Unlocks(ld, e[1]))}

\* the path loop: one entity per sorted pair (node, existing unlock target)
PathKeys(ld) ==
    {PathKey(n, t) : <<n, t>> \in
        {e \in ConfigIds(ld) \X ConfigIds(ld) : e[2] \in SeqRange(Unlocks(ld, e[1]))}}

\* the path loop's else branch: one warning per entry naming a missing id
SetupWarnings(ld) ==
    UNION {{<<n, t>> : t \in SeqRange(Unlocks(ld, n)) \ ConfigIds(ld)} : n \in ConfigIds(ld)}

\* mutant: the fallback sets the pointer and leaves the node's state alone
SetupWorld_NoForceUnlock(ld) ==
    LET ids      == ConfigIds(ld)
        first    == FirstUnlocked(ld)
        fallback == first = None /\ Len(ld) > 0
        cur      == IF fallback THEN ld[1].id ELSE first
        st0      == [n \in ids |-> ld[CHOOSE i \in 1..Len(ld) : ld[i].id = n].initial_state]
    IN  [st       |-> st0,
         cur_flag |-> [n \in ids |-> FALSE],
         coll     |-> [n \in ids |-> "box"],
         color    |-> [n \in ids |-> "initial"],
         scale    |-> [n \in ids |-> BaseScale],
         paths    |-> [k \in PathKeys(ld) |->
                          [color |-> "white", thickness |-> InitialThickness,
                           visible |-> TRUE]],
         current  |-> cur,
         pending  |-> <<>>]

\* LevelNode.__init__ for every record, Mesh(thickness=5) for every path,
\* the pointer chosen by the node loop and the fallback to levels_data[0]
SetupWorld(ld) ==
    LET ids      == ConfigIds(ld)
        first    == FirstUnlocked(ld)
        fallback == first = None /\ Len(ld) > 0
        cur      == IF fallback THEN ld[1].id ELSE first
        st0      == [n \in ids |-> ld[CHOOSE i \in 1..Len(ld) : ld[i].id = n].initial_state]
    IN  [st       |-> IF fallback /\ cur \in ids
                      THEN [st0 EXCEPT ![cur] = "unlocked"] ELSE st0,
         cur_flag |-> [n \in ids |-> FALSE],
         coll     |-> [n \in ids |-> "box"],
         color    |-> [n \in ids |-> "initial"],
         scale    |-> [n \in ids |-> BaseScale],
         paths    |-> [k \in PathKeys(ld) |->
                          [color |-> "white", thickness |-> InitialThickness,
                           visible |-> TRUE]],
         current  |-> cur,
         pending  |-> <<>>]

SetupFree(ld) == UpdateAllVisualsFree(SetupWorld(ld))

\* mutant: setup also opens the nodes the start node unlocks
SetupStrict_Cascade(ld) ==
    LET W == SetupWorld(ld)
        us == IF W.current \in DOMAIN W.st
              THEN SeqRange(Unlocks(ld, W.current)) ELSE {}
    IN  UpdateAllVisualsStrict(
            [W EXCEPT !.st = [n \in DOMAIN W.st |->
                                 IF n \in us /\ W.st[n] = "locked"
                                 THEN "unlocked" ELSE W.st[n]]])

SetupStrict(ld) == UpdateAllVisualsStrict(SetupWorld(ld))

(***************************************************************************)
(* set_current_player_node.                                                *)
(***************************************************************************)
\* the previous current node, if unlocked, becomes completed
\* mutant: the vacated node is never completed
VacateFree_Never(st, cur) == st

VacateFree(st, cur) ==
    IF cur # None /\ cur \in DOMAIN st /\ st[cur] = "unlocked"
    THEN [st EXCEPT ![cur] = "completed"] ELSE st

\* mutant: leaving a completed node reopens it
VacateStrict_Toggle(st, cur) ==
    IF cur # None
    THEN [st EXCEPT ![cur] = IF @ = "unlocked" THEN "completed" ELSE "unlocked"]
    ELSE st

\* mutant: the vacated node keeps its state
VacateStrict_Never(st, cur) == st

VacateStrict(st, cur) ==
    IF cur # None /\ st[cur] = "unlocked"
    THEN [st EXCEPT ![cur] = "completed"] ELSE st

\* the defensive branch: a locked destination is forced unlocked
ArriveFree(st, target) ==
    IF target \in DOMAIN st /\ st[target] = "locked"
    THEN [st EXCEPT ![target] = "unlocked"] ELSE st

ArriveStrict(st, target) ==
    IF st[target] = "locked" THEN [st EXCEPT ![target] = "unlocked"] ELSE st

\* one iteration of the unlock loop, for the entry u of the destination's list
UnlockOneFree(W, u) ==
    IF u \in DOMAIN W.st /\ W.st[u] = "locked"
    THEN LET original_scale == W.scale[u]
             pop_scale      == (original_scale * PopScalePct) \div 100
         IN  [W EXCEPT !.st[u]    = "unlocked",
                       !.scale[u] = pop_scale,
                       !.pending  = Append(@, <<u, original_scale>>)]
    ELSE W

\* mutant: the cascade goes on through the unlocked node's own list
UnlockOneStrict_Transitive(W, u) ==
    IF u \in DOMAIN W.st /\ W.st[u] = "locked"
    THEN LET more == {v \in SeqRange(Unlocks(levels_data, u)) \cap DOMAIN W.st :
                         W.st[v] = "locked"}
         IN  [W EXCEPT !.st      = [n \in DOMAIN W.st |->
                                       IF n = u \/ n \in more THEN "unlocked" ELSE W.st[n]],
                       !.scale[u] = StrictPopScale,
                       !.pending  = Append(@, <<u, StrictSettleScale>>)]
    ELSE W

UnlockOneStrict(W, u) ==
    IF u \in DOMAIN W.st /\ W.st[u] = "locked"
    THEN [W EXCEPT !.st[u]    = "unlocked",
                   !.scale[u] = StrictPopScale,
                   !.pending  = Append(@, <<u, StrictSettleScale>>)]
    ELSE W

\* mutant: the loop returns after its first entry
UnlockLoopFree_FirstOnly(W, us, i) ==
    IF i > Len(us) THEN W ELSE UnlockOneFree(W, us[i])

RECURSIVE UnlockLoopFree(_, _, _)
UnlockLoopFree(W, us, i) ==
    IF i > Len(us) THEN W ELSE UnlockLoopFree(UnlockOneFree(W, us[i]), us, i + 1)

RECURSIVE UnlockLoopStrict(_, _, _)
UnlockLoopStrict(W, us, i) ==
    IF i > Len(us) THEN W ELSE UnlockLoopStrict(UnlockOneStrict(W, us[i]), us, i + 1)

\* mutant: the move does not end with update_all_visuals
SetCurrentPlayerNodeFree_NoSync(ld, W, target) ==
    LET W1 == [W EXCEPT !.st = VacateFree(W.st, W.current), !.current = target]
    IN  IF target \in DOMAIN W1.st
        THEN UnlockLoopFree([W1 EXCEPT !.st = ArriveFree(W1.st, target)],
                            Unlocks(ld, target), 1)
        ELSE W1

SetCurrentPlayerNodeFree(ld, W, target) ==
    LET W1 == [W EXCEPT !.st = VacateFree(W.st, W.current), !.current = target]
        W2 == IF target \in DOMAIN W1.st
              THEN UnlockLoopFree([W1 EXCEPT !.st = ArriveFree(W1.st, target)],
                                  Unlocks(ld, target), 1)
              ELSE W1
    IN  UpdateAllVisualsFree(W2)

SetCurrentPlayerNodeStrict(ld, W, target) ==
    LET W1 == [W EXCEPT !.st = VacateStrict(W.st, W.current), !.current = target]
        W2 == UnlockLoopStrict([W1 EXCEPT !.st = ArriveStrict(W1.st, target)],
                               Unlocks(ld, target), 1)
    IN  UpdateAllVisualsStrict(W2)

(***************************************************************************)
(* handle_node_click: the world after the click and the feedback emitted.  *)
(***************************************************************************)
Shake(W, n)    == [w |-> W, fb |-> [kind |-> "shake", node |-> n]]
Entering(W, n) == [w |-> W, fb |-> [kind |-> "enter", node |-> n]]
Moved(W, n)    == [w |-> W, fb |-> [kind |-> "moved", node |-> n]]

\* src/1.py: can_move as the handler computes it
CanMoveFree(ld, W, n) ==
    /\ W.current # None
    /\ W.current \in DOMAIN W.st
    /\ \/ n \in SeqRange(Unlocks(ld, W.current)) /\ W.st[n] = "unlocked"
       \/ W.st[n] = "unlocked" \/ W.st[n] = "completed"

\* mutant: no test for the current node, a click on it is a move onto it
HandleNodeClickFree_NoCurrentCheck(ld, W, n) ==
    IF W.st[n] = "locked" THEN Shake(W, n)
    ELSE IF ~CanMoveFree(ld, W, n) /\ W.st[n] # "unlocked" /\ W.st[n] # "completed"
    THEN Shake(W, n)
    ELSE Moved(SetCurrentPlayerNodeFree(ld, W, n), n)

\* mutant: a move needs can_move's first test, an open node the current
\* node unlocks
HandleNodeClickFree_UnlocksOnly(ld, W, n) ==
    IF W.st[n] = "locked" THEN Shake(W, n)
    ELSE IF n = W.current THEN Entering(W, n)
    ELSE IF ~(/\ W.current # None
              /\ W.current \in DOMAIN W.st
              /\ n \in SeqRange(Unlocks(ld, W.current))
              /\ W.st[n] = "unlocked")
    THEN Shake(W, n)
    ELSE Moved(SetCurrentPlayerNodeFree(ld, W, n), n)

\* mutant: the locked branch shows the "Moved to" text instead of shaking
HandleNodeClickFree_MovedOnLocked(ld, W, n) ==
    IF W.st[n] = "locked" THEN Moved(W, n)
    ELSE IF n = W.current THEN Entering(W, n)
    ELSE IF ~CanMoveFree(ld, W, n) /\ W.st[n] # "unlocked" /\ W.st[n] # "completed"
    THEN Shake(W, n)
    ELSE Moved(SetCurrentPlayerNodeFree(ld, W, n), n)

HandleNodeClickFree(ld, W, n) ==
    IF W.st[n] = "locked" THEN Shake(W, n)
    ELSE IF n = W.current THEN Entering(W, n)
    ELSE IF ~CanMoveFree(ld, W, n) /\ W.st[n] # "unlocked" /\ W.st[n] # "completed"
    THEN Shake(W, n)
    ELSE Moved(SetCurrentPlayerNodeFree(ld, W, n), n)

\* mutant: the endpoints of every path, whether or not it touches node_id
GetAdjacentNodes_AnyEndpoint(paths, node_id) ==
    {k[2] : k \in DOMAIN paths} \cup {k[1] : k \in DOMAIN paths}

\* src/3dworld5.13.25.py: the other endpoints of the paths at node_id
GetAdjacentNodes(paths, node_id) ==
    {k[2] : k \in {q \in DOMAIN paths : q[1] = node_id}}
    \cup {k[1] : k \in {q \in DOMAIN paths : q[1] # node_id /\ q[2] = node_id}}

\* mutant: a path to the clicked node is all a move needs
HandleNodeClickStrict_AdjacentOnly(ld, W, n) ==
    IF n = W.current THEN Entering(W, n)
    ELSE IF n \in GetAdjacentNodes(W.paths, W.current)
    THEN Moved(SetCurrentPlayerNodeStrict(ld, W, n), n)
    ELSE Shake(W, n)

\* mutant: the free-roam policy, any open node is a legal destination
HandleNodeClickStrict_FreeRoam(ld, W, n) ==
    IF W.st[n] = "locked" THEN Shake(W, n)
    ELSE IF n = W.current THEN Entering(W, n)
    ELSE IF W.st[n] \in {"unlocked", "completed"}
    THEN Moved(SetCurrentPlayerNodeStrict(ld, W, n), n)
    ELSE Shake(W, n)

\* mutant: clicks are refused while a settle callback is still pending
HandleNodeClickStrict_BusyReject(ld, W, n) ==
    IF W.st[n] = "locked" \/ W.pending # <<>> THEN Shake(W, n)
    ELSE IF n = W.current THEN Entering(W, n)
    ELSE IF n \in GetAdjacentNodes(W.paths, W.current)
            /\ W.st[n] \in {"unlocked", "completed"}
    THEN Moved(SetCurrentPlayerNodeStrict(ld, W, n), n)
    ELSE Shake(W, n)

HandleNodeClickStrict(ld, W, n) ==
    IF W.st[n] = "locked" THEN Shake(W, n)
    ELSE IF n = W.current THEN Entering(W, n)
    ELSE IF n \in GetAdjacentNodes(W.paths, W.current)
            /\ W.st[n] \in {"unlocked", "completed"}
    THEN Moved(SetCurrentPlayerNodeStrict(ld, W, n), n)
    ELSE Shake(W, n)

(***************************************************************************)
(* The state machine.                                                      *)
(***************************************************************************)
World ==
    [st |-> node_state, cur_flag |-> is_current_game_node, coll |-> collider,
     color |-> node_color, scale |-> scale, paths |-> paths_entities,
     current |-> current_player_node_id, pending |-> pending]

Install(W) ==
    /\ node_state' = W.st
    /\ is_current_game_node' = W.cur_flag
    /\ collider' = W.coll
    /\ node_color' = W.color
    /\ scale' = W.scale
    /\ paths_entities' = W.paths
    /\ current_player_node_id' = W.current
    /\ pending' = W.pending

EmptyMap == [n \in {} |-> "none"]

Init ==
    /\ variant \in Variants
    /\ IsConfig(levels_data)
    /\ started = FALSE
    /\ node_state = EmptyMap
    /\ is_current_game_node = EmptyMap
    /\ collider = EmptyMap
    /\ node_color = EmptyMap
    /\ scale = EmptyMap
    /\ paths_entities = EmptyMap
    /\ current_player_node_id = None
    /\ pending = <<>>
    /\ feedback = [kind |-> "none", node |-> None]
    /\ warnings = {}
    /\ y_displaced = EmptyMap
    /\ rotated = EmptyMap
    /\ was_current = {}

\* the program start (src/1.py __main__; start_game in src/3dworld5.13.25.py).
\* Only src/1.py has the else branch that prints the warning for a missing id.
Setup ==
    /\ ~started
    /\ started' = TRUE
    /\ Install(IF variant = "free" THEN SetupFree(levels_data)
                                   ELSE SetupStrict(levels_data))
    /\ warnings' = IF variant = "free" THEN SetupWarnings(levels_data) ELSE {}
    /\ y_displaced' = [n \in ConfigIds(levels_data) |-> FALSE]
    /\ rotated' = [n \in ConfigIds(levels_data) |-> FALSE]
    /\ UNCHANGED <<variant, levels_data, feedback, was_current>>

\* LevelNode.on_click -> handle_node_click(node)
ClickNode(n) ==
    /\ started
    /\ n \in all_level_nodes
    /\ LET r == IF variant = "free" THEN HandleNodeClickFree(levels_data, World, n)
                                    ELSE HandleNodeClickStrict(levels_data, World, n)
       IN  Install(r.w) /\ feedback' = r.fb
    /\ was_current' = IF current_player_node_id' # current_player_node_id
                      THEN was_current \cup {current_player_node_id}
                      ELSE was_current
    /\ UNCHANGED <<variant, levels_data, started, warnings, y_displaced, rotated>>

\* the delayed callback invoke(node.animate_scale, s, delay=0.21) fires
Settle ==
    /\ pending # <<>>
    /\ scale' = [scale EXCEPT ![Head(pending)[1]] = Head(pending)[2]]
    /\ pending' = Tail(pending)
    /\ UNCHANGED <<variant, levels_data, started, node_state, is_current_game_node,
                   collider, node_color, paths_entities, current_player_node_id,
                   feedback, warnings, y_displaced, rotated, was_current>>

(***************************************************************************)
(* LevelNode.update, called on every node once per frame: the current node *)
(* bobs (y is set from original_y and the clock) and an open bonus node    *)
(* spins (rotation_y grows).  The two fields are kept as "has been moved". *)
(***************************************************************************)
LevelNodeUpdate(is_current, is_bonus, st, y_off, rot) ==
    [y_off |-> y_off \/ is_current,
     rot   |-> rot \/ (is_bonus /\ st # "locked")]

FrameUpdate ==
    /\ started
    /\ LET u == [n \in all_level_nodes |->
                    LevelNodeUpdate(is_current_game_node[n], IsBonus(levels_data, n),
                                    node_state[n], y_displaced[n], rotated[n])]
       IN  /\ y_displaced' = [n \in all_level_nodes |-> u[n].y_off]
           /\ rotated' = [n \in all_level_nodes |-> u[n].rot]
    /\ UNCHANGED <<variant, levels_data, started, node_state, is_current_game_node,
                   collider, node_color, scale, paths_entities, current_player_node_id,
                   pending, feedback, warnings, was_current>>

Click == \E n \in all_level_nodes : ClickNode(n)

Next == Setup \/ Click \/ Settle

Spec == Init /\ [][Next]_vars

(***************************************************************************)
(* The same program with the frame loop's update calls interleaved.  Its   *)
(* configurations are the shipped map and the generated ones shaped like   *)
(* it: every unlock entry names a later record, and at most the first two  *)
(* records start unlocked.                                                 *)
(***************************************************************************)
ForwardEdgeSets(k) ==
    BoundedSubsets({e \in (1..k) \X (1..k) : e[1] < e[2]}, MaxEdges)

IsFrameConfig(ld) ==
    \/ ld = ShippedLevels
    \/ \E k \in 0..NumNodes : \E E \in ForwardEdgeSets(k) :
          \E j \in 0..2 : j <= k /\ ld = GenConfig(k, E, j)

InitFrames == IsFrameConfig(levels_data) /\ Init

NextFrames == Setup \/ Click \/ Settle \/ FrameUpdate

SpecFrames == InitFrames /\ [][NextFrames]_vars

(***************************************************************************)
(* Vocabulary of the properties.                                           *)
(***************************************************************************)
StateRank(st) == CASE st = "locked" -> 0 [] st = "unlocked" -> 1 [] st = "completed" -> 2

\* the step is handle_node_click on node n (every click names its node in
\* the feedback it emits; that conjunct comes first because it is cheap)
HandlesClick(n) == feedback'.node = n /\ ClickNode(n)

\* a step that handles a click on X by moving the player onto X
MovesTo(X) == feedback' = [kind |-> "moved", node |-> X] /\ ClickNode(X)

UnlockTargets(X) == SeqRange(Unlocks(levels_data, X)) \cap all_level_nodes

CompletedNodes == {n \in all_level_nodes : node_state[n] = "completed"}

\* the last click handled was a move, and it is the only move so far (every
\* move from an unlocked node completes it, and the first current node is
\* unlocked)
FirstMoveDone ==
    /\ started
    /\ feedback.kind = "moved"
    /\ current_player_node_id = feedback.node
    /\ Cardinality(CompletedNodes) = 1

\* nothing but the feedback signal changes
GameStateUnchanged ==
    UNCHANGED <<node_state, current_player_node_id, is_current_game_node, collider,
                node_color, scale, paths_entities, pending, y_displaced, rotated>>

\* the chain A(unlocked) -> B(locked) -> C(locked): A = 1, B = 2, C = 3
ChainLevels == GenConfig(3, {<<1, 2>>, <<2, 3>>}, 1)

(***************************************************************************)
(* C1: after setup on a non-empty configuration and after any clicks,      *)
(* exactly one node has is_current_game_node = TRUE, and it is the node    *)
(* whose id is current_player_node_id.                                     *)
(***************************************************************************)
C1_SingleCurrentNode ==
    (started /\ Len(levels_data) > 0) =>
        /\ current_player_node_id \in all_level_nodes
        /\ {n \in all_level_nodes : is_current_game_node[n]} = {current_player_node_id}

\* a move has happened: the vacated node lost the flag, the destination has it
C1_Witness ==
    /\ FirstMoveDone
    /\ is_current_game_node[feedback.node]
    /\ \E p \in CompletedNodes : ~is_current_game_node[p]

(***************************************************************************)
(* C2: no step after setup makes a node's state regress (completed to      *)
(* unlocked, unlocked to locked, completed to locked).                     *)
(***************************************************************************)
C2_MonotonicState ==
    [][started =>
         \A n \in all_level_nodes :
             StateRank(node_state'[n]) >= StateRank(node_state[n])]_vars

\* two moves have happened, and a node unlocked by a move is still unlocked
C2_Witness ==
    /\ started
    /\ feedback.kind = "moved"
    /\ Cardinality(CompletedNodes) >= 2
    /\ \E i \in 1..Len(pending) : node_state[pending[i][1]] = "unlocked"

(***************************************************************************)
(* C3: in the chain A(unlocked) -> B(locked) -> C(locked), a click on B    *)
(* while A is current gives A completed, B unlocked, current = B and C     *)
(* still locked.                                                           *)
(***************************************************************************)
C3_ChainScenario ==
    [][(levels_data = ChainLevels /\ started /\ current_player_node_id = 1
            /\ HandlesClick(2)) =>
         /\ node_state'[1] = "completed"
         /\ node_state'[2] = "unlocked"
         /\ current_player_node_id' = 2
         /\ node_state'[3] = "locked"]_vars

(***************************************************************************)
(* C4: after a move onto X, every existing node of X.unlocks that was      *)
(* locked before the move is unlocked.                                     *)
(***************************************************************************)
C4_UnlockCascade ==
    [][\A X \in all_level_nodes :
         MovesTo(X) =>
             \A u \in UnlockTargets(X) :
                 node_state[u] = "locked" => node_state'[u] = "unlocked"]_vars

\* the one move so far unlocked a node of the destination's list
C4_Witness ==
    /\ FirstMoveDone
    /\ pending # <<>>
    /\ \A i \in 1..Len(pending) :
          /\ pending[i][1] \in UnlockTargets(current_player_node_id)
          /\ node_state[pending[i][1]] = "unlocked"

(***************************************************************************)
(* C5 as claimed: a move onto X leaves the state of every node outside     *)
(* X.unlocks as it was.                                                    *)
(***************************************************************************)
C5_Original ==
    [][\A X \in all_level_nodes :
         MovesTo(X) =>
             \A n \in all_level_nodes \ UnlockTargets(X) :
                 node_state'[n] = node_state[n]]_vars

(***************************************************************************)
(* C5 amended: a move onto X from P leaves the state of every node outside *)
(* X.unlocks as it was, except P, which changes only from unlocked to      *)
(* completed; the nodes of X.unlocks change only from locked to unlocked.  *)
(***************************************************************************)
C5_CascadeFrame ==
    [][\A X \in all_level_nodes :
         MovesTo(X) =>
             \A n \in all_level_nodes :
                 \/ node_state'[n] = node_state[n]
                 \/ /\ n \in UnlockTargets(X)
                    /\ node_state[n] = "locked" /\ node_state'[n] = "unlocked"
                 \/ /\ n = current_player_node_id
                    /\ node_state[n] = "unlocked" /\ node_state'[n] = "completed"]_vars

\* the one move so far completed a node outside the destination's list, and
\* left locked a node that a newly unlocked node unlocks
C5_Witness ==
    /\ FirstMoveDone
    /\ CompletedNodes \cap UnlockTargets(current_player_node_id) = {}
    /\ \E i \in 1..Len(pending) :
          \E v \in UnlockTargets(pending[i][1]) :
              /\ v \notin UnlockTargets(current_player_node_id)
              /\ node_state[v] = "locked"

(***************************************************************************)
(* C6: a move from P onto a different node X completes P when P was        *)
(* unlocked and leaves P completed when P was completed.                   *)
(***************************************************************************)
C6_VacatedNodeCompleted ==
    [][\A X \in all_level_nodes :
         (MovesTo(X) /\ current_player_node_id \in all_level_nodes
                     /\ current_player_node_id # X) =>
             LET P == current_player_node_id
             IN  /\ node_state[P] = "unlocked" => node_state'[P] = "completed"
                 /\ node_state[P] = "completed" => node_state'[P] = "completed"]_vars

\* the player has moved away from a node and come back to a completed node
C6_Witness ==
    /\ started
    /\ feedback.kind = "moved"
    /\ node_state[current_player_node_id] = "completed"
    /\ CompletedNodes \ {current_player_node_id} # {}

(***************************************************************************)
(* C7: after setup and after any clicks, a path whose two endpoints are    *)
(* both locked is not visible.                                             *)
(***************************************************************************)
C7_LockedPathHidden ==
    started =>
        \A k \in DOMAIN paths_entities :
            (node_state[k[1]] = "locked" /\ node_state[k[2]] = "locked")
                => ~paths_entities[k].visible

\* after a move, a path between two locked nodes and a visible path
C7_Witness ==
    /\ FirstMoveDone
    /\ \E k \in DOMAIN paths_entities :
          /\ k[1] # k[2]
          /\ node_state[k[1]] = "locked" /\ node_state[k[2]] = "locked"
    /\ \E k \in DOMAIN paths_entities : paths_entities[k].visible

C9_LockedClickRejected ==
    [][\A n \in all_level_nodes :
         (node_state[n] = "locked" /\ HandlesClick(n)) =>
             /\ GameStateUnchanged
             /\ feedback' = [kind |-> "shake", node |-> n]]_vars

\* after a move, a locked node was clicked and shaken
C9_Witness ==
    /\ started
    /\ CompletedNodes # {}
    /\ feedback.kind = "shake"
    /\ node_state[feedback.node] = "locked"

(***************************************************************************)
(* C10: in src/3dworld5.13.25.py, a click on a node that is not locked,    *)
(* not current and not joined to the current node by a path is rejected:   *)
(* nothing changes but a shake request.                                    *)
(***************************************************************************)
C10_StrictUnreachableRejected ==
    [][\A n \in all_level_nodes :
         (/\ variant = "strict"
          /\ node_state[n] # "locked"
          /\ n # current_player_node_id
          /\ n \notin GetAdjacentNodes(paths_entities, current_player_node_id)
          /\ HandlesClick(n)) =>
             /\ GameStateUnchanged
             /\ feedback' = [kind |-> "shake", node |-> n]]_vars

\* a shake on an open node with no path to the current node (the state is
\* the one the click saw: a rejected click changes nothing)
C10_Witness ==
    /\ started
    /\ variant = "strict"
    /\ feedback.kind = "shake"
    /\ node_state[feedback.node] # "locked"
    /\ feedback.node # current_player_node_id
    /\ feedback.node \notin GetAdjacentNodes(paths_entities, current_player_node_id)

(***************************************************************************)
(* C11: in both variants a click on the current node emits only the        *)
(* "Entering Level" signal: no node state, no current pointer and no       *)
(* visual directive (scale, colour, collider, path) changes, and no        *)
(* callback is scheduled.                                                  *)
(***************************************************************************)
C11_EnterCurrentIsNoop ==
    [][\A n \in all_level_nodes :
          (n = current_player_node_id /\ HandlesClick(n)) =>
              /\ feedback' = [kind |-> "enter", node |-> n]
              /\ GameStateUnchanged]_vars

\* the player has moved, and the node moved onto has then been clicked again
C11_Witness ==
    /\ started
    /\ feedback = [kind |-> "enter", node |-> current_player_node_id]
    /\ CompletedNodes # {}
    /\ node_state[current_player_node_id] = "unlocked"

(***************************************************************************)
(* C12: in the strict variant a click on a non-locked, non-current target  *)
(* moves only along a path: the target is in the current node's unlocks    *)
(* list or the current node is in the target's; a target joined to the     *)
(* current node by neither list is rejected and nothing changes.           *)
(***************************************************************************)
C12_StrictMoveAlongPath ==
    [][\A n \in all_level_nodes :
          (/\ variant = "strict"
           /\ HandlesClick(n)
           /\ node_state[n] # "locked"
           /\ n # current_player_node_id) =>
              LET joined == \/ n \in SeqRange(Unlocks(levels_data, current_player_node_id))
                            \/ current_player_node_id \in SeqRange(Unlocks(levels_data, n))
              IN  /\ feedback'.kind = "moved" => joined
                  /\ ~joined => feedback'.kind = "shake" /\ GameStateUnchanged]_vars

\* the first move went against the direction of the unlock entry: the node
\* moved onto lists the vacated node, the vacated node does not list it
C12_Witness ==
    /\ variant = "strict"
    /\ FirstMoveDone
    /\ \E p \in CompletedNodes :
          /\ p \in SeqRange(Unlocks(levels_data, current_player_node_id))
          /\ current_player_node_id \notin SeqRange(Unlocks(levels_data, p))

\* C12 as claimed: a strict move needs the target in the current node's
\* unlocks list, and a target outside that list is rejected
C12_Original ==
    [][\A n \in all_level_nodes :
          (/\ variant = "strict"
           /\ HandlesClick(n)
           /\ node_state[n] # "locked"
           /\ n # current_player_node_id) =>
              LET listed == n \in SeqRange(Unlocks(levels_data, current_player_node_id))
              IN  /\ feedback'.kind = "moved" => listed
                  /\ ~listed => feedback'.kind = "shake"]_vars

(***************************************************************************)
(* C13: setup of a non-empty configuration in which no record has          *)
(* initial_state unlocked leaves the first record's node unlocked and      *)
(* current and every other node locked; setup of a configuration of one    *)
(* node with an empty unlocks list creates no path.                        *)
(***************************************************************************)
C13_SetupFallback ==
    [][(~started /\ started') =>
          /\ (Len(levels_data) > 0
               /\ \A i \in 1..Len(levels_data) :
                      levels_data[i].initial_state # "unlocked") =>
                 /\ current_player_node_id' = levels_data[1].id
                 /\ node_state'[levels_data[1].id] = "unlocked"
                 /\ \A n \in ConfigIds(levels_data) \ {levels_data[1].id} :
                        node_state'[n] = "locked"
          /\ (Len(levels_data) = 1 /\ levels_data[1].unlocks = <<>>) =>
                 DOMAIN paths_entities' = {}]_vars

\* setup has just run on a map of several nodes, all of them configured
\* locked, with a path from the first
C13_Witness ==
    /\ started
    /\ feedback.kind = "none"
    /\ Len(levels_data) >= 2
    /\ \A i \in 1..Len(levels_data) : levels_data[i].initial_state = "locked"
    /\ Unlocks(levels_data, levels_data[1].id) # <<>>
    /\ DOMAIN paths_entities # {}

(***************************************************************************)
(* C14: after setup and after any clicks the current node is not locked,   *)
(* and a click makes a node current only if the node was unlocked or       *)
(* completed before the click.                                             *)
(***************************************************************************)
C14_CurrentNeverLocked ==
    [][(started' /\ Len(levels_data) > 0) =>
          /\ node_state'[current_player_node_id'] # "locked"
          /\ (started /\ current_player_node_id' # current_player_node_id) =>
                 node_state[current_player_node_id'] # "locked"]_vars

\* the player has moved back onto a node it had completed
C14_Witness ==
    /\ started
    /\ feedback = [kind |-> "moved", node |-> current_player_node_id]
    /\ node_state[current_player_node_id] = "completed"

(***************************************************************************)
(* The worlds some finite sequence of clicks leads to: the least set that  *)
(* holds S and is closed under handle_node_click on every node.            *)
(***************************************************************************)
ClickResult(W, n) ==
    IF variant = "free" THEN HandleNodeClickFree(levels_data, W, n).w
                        ELSE HandleNodeClickStrict(levels_data, W, n).w

RECURSIVE ClickClosure(_)
ClickClosure(S) ==
    LET T == S \cup UNION {{ClickResult(W, n) : n \in DOMAIN W.st} : W \in S}
    IN  IF T = S THEN S ELSE ClickClosure(T)

(***************************************************************************)
(* C15: right after setup on the shipped levels_data, in both variants,    *)
(* every level node is the current node of some world that a finite        *)
(* sequence of clicks leads to.                                            *)
(***************************************************************************)
C15_ShippedAllReachable ==
    (started /\ levels_data = ShippedLevels /\ feedback.kind = "none") =>
        \A n \in all_level_nodes :
            \E W \in ClickClosure({World}) : W.current = n

\* the state node n is in before a step: its configured initial_state before
\* setup has created it, its node_state afterwards
StateBefore(n) ==
    IF started THEN node_state[n]
    ELSE levels_data[CHOOSE i \in 1..Len(levels_data) : levels_data[i].id = n].initial_state

(***************************************************************************)
(* C16: a node goes from locked to unlocked only in setup, as the first    *)
(* record of a configuration with no record initially unlocked, or in a    *)
(* move, as a node listed in the unlocks of the node moved onto.           *)
(***************************************************************************)
C16_UnlockOnlyByFallbackOrMove ==
    [][\A n \in DOMAIN node_state' :
          (node_state'[n] = "unlocked" /\ StateBefore(n) = "locked") =>
              \/ /\ ~started
                 /\ n = levels_data[1].id
                 /\ \A i \in 1..Len(levels_data) :
                        levels_data[i].initial_state # "unlocked"
              \/ /\ started
                 /\ \E X \in all_level_nodes :
                        /\ n \in SeqRange(Unlocks(levels_data, X))
                        /\ MovesTo(X)]_vars

\* a move has just opened a node that was configured locked
C16_Witness ==
    /\ FirstMoveDone
    /\ \E u \in UnlockTargets(current_player_node_id) :
          /\ node_state[u] = "unlocked"
          /\ u # current_player_node_id
          /\ \E i \in 1..Len(levels_data) :
                levels_data[i].id = u /\ levels_data[i].initial_state = "locked"

(***************************************************************************)
(* C17: in the free-roam variant a click on an unlocked or completed node  *)
(* that is not current always moves the player onto it, joined by a path   *)
(* or not, and a click is rejected only if the clicked node is locked.     *)
(***************************************************************************)
C17_FreeRoamAlwaysMoves ==
    [][\A n \in all_level_nodes :
          (variant = "free" /\ HandlesClick(n)) =>
              /\ (node_state[n] # "locked" /\ n # current_player_node_id) =>
                     /\ feedback' = [kind |-> "moved", node |-> n]
                     /\ current_player_node_id' = n
              /\ feedback'.kind = "shake" => node_state[n] = "locked"]_vars

\* the first move went to a node that no path joins to the node left
C17_Witness ==
    /\ variant = "free"
    /\ FirstMoveDone
    /\ \A p \in CompletedNodes :
          PathKey(p, current_player_node_id) \notin DOMAIN paths_entities

(***************************************************************************)
(* C18: in both variants, once the settle callbacks of a move have fired   *)
(* with no click in between, the last scale requested for each node the    *)
(* move unlocked is the baseline scale of an unlocked, non-current node,   *)
(* 0.8, not the locked scale and not the pop scale.                        *)
(***************************************************************************)
C18_SettledAtBaseline ==
    (FirstMoveDone /\ pending = <<>>) =>
        \A u \in UnlockTargets(current_player_node_id) :
            (node_state[u] = "unlocked" /\ u # current_player_node_id) =>
                scale[u] = StateScale("unlocked", FALSE)

\* the world once every pending settle callback has fired, in order
RECURSIVE FireAll(_)
FireAll(W) ==
    IF W.pending = <<>> THEN W
    ELSE FireAll([W EXCEPT !.scale[Head(W.pending)[1]] = Head(W.pending)[2],
                           !.pending = Tail(W.pending)])

(***************************************************************************)
(* C19: with clicks, frame updates and settle callbacks interleaved in any *)
(* order, a frame update or a callback changes no node's state and not     *)
(* the current pointer, and every click leaves the node states and the     *)
(* pointer that the same click leaves when no callback is pending (all     *)
(* have fired before it): step by step, a click sequence reaches the same  *)
(* state whatever is pending at each click.                                *)
(***************************************************************************)
C19_CosmeticInterleaving ==
    [][/\ \/ UNCHANGED <<node_state, current_player_node_id>>
          \/ ~(FrameUpdate \/ Settle)
       /\ \A n \in all_level_nodes :
              (/\ UNCHANGED <<y_displaced, rotated>>
               /\ Len(pending') >= Len(pending)
               /\ HandlesClick(n)) =>
                  LET r == ClickResult(FireAll(World), n)
                  IN  /\ node_state' = r.st
                      /\ current_player_node_id' = r.current]_vars

\* the last move was made while the callback of an earlier move was still
\* pending, and frames ran before and after it
C19_Witness ==
    /\ started
    /\ feedback = [kind |-> "moved", node |-> current_player_node_id]
    /\ \E i \in 1..Len(pending) :
          pending[i][1] \notin UnlockTargets(current_player_node_id)
    /\ y_displaced[current_player_node_id]
    /\ \E p \in CompletedNodes : p # current_player_node_id /\ y_displaced[p]

(***************************************************************************)
(* C20: after setup and after every click handler, in both variants, a     *)
(* node has a collider (can be hit by a click) if and only if its state    *)
(* is not locked.                                                          *)
(***************************************************************************)
C20_ColliderIffNotLocked ==
    started =>
        \A n \in all_level_nodes :
            (collider[n] # "none") <=> (node_state[n] # "locked")

\* a move has left a completed node behind, opened a node that was locked
\* and left another node locked
C20_Witness ==
    /\ FirstMoveDone
    /\ \E p \in CompletedNodes : collider[p] # "none"
    /\ \E u \in UnlockTargets(current_player_node_id) :
          /\ StateBefore(u) = "unlocked"
          /\ collider[u] # "none"
          /\ \E i \in 1..Len(levels_data) :
                levels_data[i].id = u /\ levels_data[i].initial_state = "locked"
    /\ \E l \in all_level_nodes : node_state[l] = "locked" /\ collider[l] = "none"

\* the classification table of the path visuals: endpoint states s1, s2 and
\* current flags c1, c2 to colour, thickness and visibility
PathClassTable(s1, s2, c1, c2) ==
    IF s1 # "locked" /\ s2 # "locked"
    THEN IF c1 \/ c2
         THEN [color |-> "white", thickness |-> 8, visible |-> TRUE]
         ELSE IF s1 = "unlocked" /\ s2 = "unlocked"
         THEN [color |-> "light_gray", thickness |-> 5, visible |-> TRUE]
         ELSE [color |-> "gray", thickness |-> 5, visible |-> TRUE]
    ELSE [color |-> "black", thickness |-> 3,
          visible |-> \/ s1 = "locked" /\ s2 \in {"unlocked", "completed"}
                      \/ s2 = "locked" /\ s1 \in {"unlocked", "completed"}]

C22_PathsFixedBySetup ==
    started =>
        DOMAIN paths_entities =
            {k \in all_level_nodes \X all_level_nodes :
                /\ k[1] <= k[2]
                /\ \/ k[2] \in SeqRange(Unlocks(levels_data, k[1]))
                   \/ k[1] \in SeqRange(Unlocks(levels_data, k[2]))}

\* two nodes list each other and share the one path of the map, and the
\* player has moved along it
C22_Witness ==
    /\ FirstMoveDone
    /\ Cardinality(DOMAIN paths_entities) = 1
    /\ \E a, b \in all_level_nodes :
          /\ a # b
          /\ b \in SeqRange(Unlocks(levels_data, a))
          /\ a \in SeqRange(Unlocks(levels_data, b))
          /\ current_player_node_id \in {a, b}

(***************************************************************************)
(* C23: in both variants setup warns once for every unlocks entry that     *)
(* names a missing id, creates no path for it and still builds every node  *)
(* and every other path; a later move onto the node with such an entry     *)
(* skips it and leaves every existing node of the list unlocked.           *)
(***************************************************************************)
C23_DanglingUnlockTolerated ==
    [][/\ started' =>
              /\ warnings' =
                     {e \in ConfigIds(levels_data) \X {GhostId} :
                         e[2] \in SeqRange(Unlocks(levels_data, e[1]))}
              /\ DOMAIN node_state' = ConfigIds(levels_data)
              /\ DOMAIN paths_entities' =
                     {PathKey(e[1], e[2]) :
                         e \in {d \in ConfigIds(levels_data) \X ConfigIds(levels_data) :
                                    d[2] \in SeqRange(Unlocks(levels_data, d[1]))}}
       /\ \A X \in all_level_nodes :
              (GhostId \in SeqRange(Unlocks(levels_data, X)) /\ MovesTo(X)) =>
                  \A u \in UnlockTargets(X) : node_state'[u] # "locked"]_vars

\* the displayed flags, colliders, colours and paths are those of the node
\* states and the pointer: the visual sync has run since they last changed
VisualsInSync ==
    /\ \A m \in all_level_nodes :
          /\ is_current_game_node[m] = (m = current_player_node_id)
          /\ (collider[m] # "none") = (node_state[m] # "locked")
          /\ node_color[m] =
                 IF m = current_player_node_id THEN "white"
                 ELSE IF node_state[m] = "locked" THEN "gray"
                 ELSE IF node_state[m] = "unlocked" THEN "initial"
                 ELSE "darkened"
    /\ \A k \in DOMAIN paths_entities :
          paths_entities[k] =
              PathClassTable(node_state[k[1]], node_state[k[2]],
                             is_current_game_node[k[1]], is_current_game_node[k[2]])

(***************************************************************************)
(* C24: in both variants every click leaves exactly one feedback signal,   *)
(* about the clicked node: a shake, "Entering Level" (only for the current *)
(* node) or "Moved to"; "Moved to" is emitted if and only if the pointer   *)
(* changed to the clicked node, and when it is emitted the move's state    *)
(* changes are made and the visuals are in sync with them.                 *)
(***************************************************************************)
C24_OneFeedbackPerClick ==
    [][\A n \in all_level_nodes :
          (Len(pending') >= Len(pending) /\ ClickNode(n)) =>
              /\ feedback'.node = n
              /\ feedback'.kind \in {"shake", "enter", "moved"}
              /\ feedback'.kind = "enter" => n = current_player_node_id
              /\ (feedback'.kind = "moved") <=>
                     (current_player_node_id' = n /\ current_player_node_id # n)
              /\ feedback'.kind = "moved" =>
                     /\ node_state[current_player_node_id] = "unlocked" =>
                            node_state'[current_player_node_id] = "completed"
                     /\ \A u \in UnlockTargets(n) : node_state'[u] # "locked"
                     /\ VisualsInSync']_vars

\* after a move, a click on an open node has been rejected with a shake
C24_Witness ==
    /\ started
    /\ CompletedNodes # {}
    /\ feedback.kind = "shake"
    /\ node_state[feedback.node] # "locked"

(***************************************************************************)
(* C25: in both variants, after setup and after any clicks, every node     *)
(* that was current earlier and is not current now is completed, and       *)
(* every completed node was current earlier.                               *)
(***************************************************************************)
C25_CompletedIffVisited ==
    started =>
        \A n \in all_level_nodes :
            /\ (n \in was_current /\ n # current_player_node_id) =>
                   node_state[n] = "completed"
            /\ node_state[n] = "completed" => n \in was_current

\* the player has left two nodes and is back on one of them
C25_Witness ==
    /\ started
    /\ Cardinality(was_current) >= 2
    /\ current_player_node_id \in was_current
    /\ node_state[current_player_node_id] = "completed"

====
